---- MODULE Spec2Model ----
(***************************************************************************)
(* The demo verification scripts of demo-test/ as one state machine.       *)
(* A script is a straight-line body inside try/except/finally; every       *)
(* awaited Playwright call is one step.  A step either returns or raises,  *)
(* and a raise moves control to the script's except block.                 *)
(* Time is counted in whole seconds since the last click on a Start Demo   *)
(* button (all waits in the scripts are whole seconds).                    *)
(***************************************************************************)
EXTENDS Integers, Sequences, FiniteSets, TLC

\* ------------------------------------------------------------------ bounds
\* The URL wait returns after 0..MaxTransDelay seconds when the URL matches.
MaxTransDelay == 1
\* The demo page shows 0..MaxButtons "Start Demo" buttons.
MaxButtons == 2

\* ------------------------------------------------------- program constants
\* page.wait_for_url("**/shipping", timeout=10000), in seconds
TransitionTimeout == 10
\* if success_rate >= 70 (test-demo-comprehensive.py)
ComprehensiveThreshold == 70
\* if success_rate >= 80 (test-demo-final.py)
FinalThreshold == 80
\* the step comments of test-demo-comprehensive.py: each step waits 5000 ms
PhaseWindow == 5

Scripts == {"comprehensive", "final", "advanced", "basic", "debug"}

\* ------------------------------------------------------------------ fields
ContactFields == <<"origin-contact-name", "origin-contact-company",
                   "origin-contact-phone", "origin-contact-email">>
OriginFields == <<"origin-address", "origin-city", "origin-state", "origin-zip">>
DestFields == <<"destination-contact-name", "destination-contact-company",
                "destination-address", "destination-city">>
PackageFields == <<"package-weight-value", "dimension-length", "dimension-width",
                   "dimension-height", "package-declared-value">>

Range(s) == {s[i] : i \in 1..Len(s)}

\* The phase (1 contact, 2 origin address, 3 destination, 4 package) in which
\* the comprehensive script expects a field to fill.
ContactSet == Range(ContactFields)
OriginSet == Range(OriginFields)
DestSet == Range(DestFields)
PackageSet == Range(PackageFields)

PhaseOf(f) ==
    IF f \in ContactSet THEN 1
    ELSE IF f \in OriginSet THEN 2
    ELSE IF f \in DestSet THEN 3
    ELSE 4

\* The fields a script scores: all_fields, fields_to_check, and the four
\* locals of the advanced script's final test.
AllFields == ContactFields \o OriginFields \o DestFields \o PackageFields
FieldsToCheck == ContactFields \o OriginFields

Declared(s) ==
    IF s = "comprehensive" THEN AllFields
    ELSE IF s = "final" THEN FieldsToCheck
    ELSE IF s = "advanced" THEN ContactFields
    ELSE << >>

\* ---------------------------------------------------------------- programs
\* One instruction: op, arg (a field, a path or a selector), n (seconds, an
\* nth index or a threshold) and to (the else target of a branch, or the
\* successor of the last statement of a then-branch; 0 = the next statement).
Ins(op, arg, n, to) == [op |-> op, arg |-> arg, n |-> n, to |-> to]

IGoto(idle) == Ins("goto", IF idle THEN "networkidle" ELSE "load", 0, 0)
IClick(nth) == Ins("click", "Start Demo", nth, 0)
IWaitUrl == Ins("waiturl", "**/shipping", TransitionTimeout, 0)
IWait(secs) == Ins("wait", "", secs, 0)
\* slot "obs": the value is kept for the score; "extra": printed only.
\* n = 1: the read is wrapped in its own try/except.
IRead(f, slot, guarded) == Ins("read", f, IF guarded THEN 1 ELSE 0, IF slot = "obs" THEN 0 ELSE -1)
IShot(path) == Ins("shot", path, 0, 0)
IInspect(what) == Ins("inspect", what, 0, 0)
IIfCount(sel, nth, else) == Ins("ifcount", sel, nth, else)

Reads(fs, guarded) == [i \in 1..Len(fs) |-> IRead(fs[i], "obs", guarded)]

\* ComprehensiveProg with the wait of the origin-address phase begun before
\* the last contact field is read.
ComprehensiveProg_overlap ==
    << IGoto(TRUE), IClick(0), IWaitUrl >>
    \o << IWait(PhaseWindow) >> \o Reads(SubSeq(ContactFields, 1, 3), FALSE)
    \o << IWait(PhaseWindow) >> \o Reads(SubSeq(ContactFields, 4, 4) \o OriginFields, FALSE)
    \o << IWait(PhaseWindow) >> \o Reads(DestFields, FALSE)
    \o << IWait(PhaseWindow) >> \o Reads(PackageFields, FALSE)
    \o << IShot("demo_comprehensive_final.png"),
          Ins("score", "return", ComprehensiveThreshold, 0) >>

ComprehensiveProg ==
    << IGoto(TRUE), IClick(0), IWaitUrl >>
    \o << IWait(PhaseWindow) >> \o Reads(ContactFields, FALSE)
    \o << IWait(PhaseWindow) >> \o Reads(OriginFields, FALSE)
    \o << IWait(PhaseWindow) >> \o Reads(DestFields, FALSE)
    \o << IWait(PhaseWindow) >> \o Reads(PackageFields, FALSE)
    \o << IShot("demo_comprehensive_final.png"),
          Ins("score", "return", ComprehensiveThreshold, 0) >>

FinalProg ==
    << IGoto(TRUE), IInspect("title"), IInspect("h1"), IInspect("cards"),
       IInspect("buttons"), IClick(0), IWaitUrl, IWait(8) >>
    \o Reads(ContactFields \o OriginFields, TRUE)
    \o << IInspect("Demo in progress"), IShot("demo_final_test.png"),
          IGoto(FALSE), IIfCount("Start Demo", 1, 25),
          IClick(1), IWaitUrl, IWait(5),
          IRead("origin-contact-company", "extra", FALSE),
          Ins("score", "print", FinalThreshold, 0) >>

AdvancedProg ==
    << IGoto(TRUE), IShot("demo_1_initial.png"), IInspect("cards"),
       IIfCount("Start Demo", 0, 20),
       IClick(0), IWait(1), IShot("demo_2_started.png"), IWaitUrl, IWait(3),
       IShot("demo_3_shipping_form.png"), IWait(10) >>
    \o Reads(ContactFields, FALSE)
    \o << IShot("demo_4_form_filled.png"), IInspect("demo-control"),
          IInspect("progress"), Ins("allof", "print", 0, 0) >>

BasicProg ==
    << IGoto(TRUE), IShot("demo_initial.png"), IInspect("title"),
       IIfCount("h1", 0, 6), IInspect("h1"), IInspect("cards"),
       IIfCount("Start Demo", 0, 13),
       IClick(0), IWait(2), IShot("demo_started.png"), IInspect("demo-control"),
       Ins("inspect", "progress", 0, 14),
       IInspect("content") >>

DebugProg ==
    << IGoto(TRUE), IClick(0), IWaitUrl, IWait(15),
       IRead("origin-contact-name", "extra", FALSE), IShot("demo_debug.png") >>

Prog(s) ==
    CASE s = "comprehensive" -> ComprehensiveProg
      [] s = "final" -> FinalProg
      [] s = "advanced" -> AdvancedProg
      [] s = "basic" -> BasicProg
      [] s = "debug" -> DebugProg

\* The path of the screenshot the except block takes.
ErrorShot(s) ==
    CASE s = "comprehensive" -> "demo_comprehensive_error.png"
      [] s = "final" -> "demo_final_error.png"
      [] s = "advanced" -> "demo_error.png"
      [] s = "basic" -> "demo_error.png"
      [] s = "debug" -> "demo_debug_error.png"


\* ------------------------------------------------------------------- state
VARIABLES
    script,      \* which script is running
    pc,          \* the next statement of the try body
    ctl,         \* "try", "except", "finally", "exit" or "done"
    browser,     \* "open" or "closed"
    page,        \* "blank", "demo" or "shipping": where the page is
    nButtons,    \* how many Start Demo buttons the loaded demo page shows
    clicks,      \* clicks dispatched on a Start Demo button
    elapsed,     \* seconds since the last such click
    obs,         \* the scored locals: field -> "unset", "" or "v"
    extra,       \* a value read only to be printed: "unset", "" or "v"
    reads,       \* every input_value() call made, in order (without its value)
    waits,       \* wait_for_timeout and wait_for_url calls made, in order
    shots,       \* the screenshots written, in order
    successRate, \* << >> until computed, then <<100 * filled, total>>
    verdict,     \* "none", "pass" or "fail": the branch the summary took
    exc,         \* "none" or the call that raised into the except block
    returned,    \* "unset", "True", "False", "None" or "raised"
    exitStatus,  \* -1 until the process exits, then its exit status
    trace,       \* the statements the run has executed, in order
    last,        \* << call, result >> of the run's latest step
    cur,         \* the run that is executing: 1 or 2
    other,       \* the state of the run that is not executing, << >> if none
    disk         \* the files written to the working directory: << path, run >>

\* The state of one run: everything a process holds for itself.
run == << script, pc, ctl, browser, page, nButtons, clicks, elapsed, obs, extra,
          reads, waits, shots, successRate, verdict, exc, returned, exitStatus,
          trace, last >>

vars == << run, cur, other, disk >>

env == << page, nButtons, clicks, elapsed >>
locals == << obs, extra >>
result == << successRate, verdict >>
outcome == << returned, exitStatus >>

\* No scored local is bound yet.
UnboundAll == [f \in Range(AllFields) |-> "unset"]
UnboundToCheck == [f \in Range(FieldsToCheck) |-> "unset"]
UnboundContact == [f \in ContactSet |-> "unset"]
UnboundNone == [f \in {} |-> "unset"]

Unbound(s) ==
    IF s = "comprehensive" THEN UnboundAll
    ELSE IF s = "final" THEN UnboundToCheck
    ELSE IF s = "advanced" THEN UnboundContact
    ELSE UnboundNone

\* A script is started: the browser is launched and a blank page opened.
Launch ==
    /\ script \in Scripts
    /\ pc = 1
    /\ ctl = "try"
    /\ browser = "open"
    /\ page = "blank"
    /\ nButtons = 0
    /\ clicks = 0
    /\ elapsed = 0
    /\ obs = Unbound(script)
    /\ extra = "unset"
    /\ reads = << >>
    /\ waits = << >>
    /\ shots = << >>
    /\ successRate = << >>
    /\ verdict = "none"
    /\ exc = "none"
    /\ returned = "unset"
    /\ exitStatus = -1
    /\ trace = << >>
    /\ last = << "start", "" >>

\* One script run on its own, in an empty working directory.
Init ==
    /\ Launch
    /\ cur = 1
    /\ other = << >>
    /\ disk = {}

\* ---------------------------------------------------------------- control
Cur == Prog(script)[pc]
At(op) == ctl = "try" /\ pc <= Len(Prog(script)) /\ Cur.op = op

\* Control moves to statement n of the try body, or to finally past its end.
Continue(n) ==
    /\ pc' = n
    /\ ctl' = IF n > Len(Prog(script)) THEN "finally" ELSE "try"
    /\ exc' = exc

Following == IF Cur.to > 0 THEN Cur.to ELSE pc + 1

\* The step is entered in the trace with the result the adapter gave it.
Log(call, res) == trace' = Append(trace, call) /\ last' = << call, res >>

\* Raise with a retry: the first statements of the script are attempted again
\* when they fail.
Raise_retry(call) ==
    /\ pc' = pc
    /\ ctl' = IF Len(trace) < 3 THEN "try" ELSE "except"
    /\ exc' = IF Len(trace) < 3 THEN exc ELSE call
    /\ obs' = Unbound(script)
    /\ extra' = "unset"
    /\ Log(call, "raise")

\* The call raises: control moves to `except Exception as e`.  No except
\* block uses a local the try body bound, so the locals are dead from here on
\* and are dropped.
Raise(call) ==
    /\ pc' = pc
    /\ ctl' = "except"
    /\ exc' = call
    /\ obs' = Unbound(script)
    /\ extra' = "unset"
    /\ Log(call, "raise")

\* ----------------------------------------------------------------- actions
\* goto with the navigation error swallowed: the failure is noted and the
\* script goes on to its next statement.
goto_swallowed ==
    /\ At("goto")
    /\ UNCHANGED << script, cur, other, disk, browser, clicks, elapsed, locals, reads, waits, shots, result, outcome >>
    /\ pc' = pc + 1
    /\ ctl' = "try"
    /\ \/ \E b \in 0..MaxButtons :
            /\ page' = "demo" /\ nButtons' = b /\ exc' = exc
            /\ Log("goto", ToString(b))
       \/ /\ page' = "demo" /\ nButtons' = MaxButtons /\ exc' = "goto"
          /\ Log("goto", "raise")

\* await page.goto(url[, wait_until="networkidle"]): the demo page loads with
\* some number of Start Demo buttons, or the navigation raises.
goto ==
    /\ At("goto")
    /\ UNCHANGED << script, cur, other, disk, browser, clicks, elapsed, reads, waits, shots, result, outcome >>
    /\ \/ \E b \in 0..MaxButtons :
            /\ page' = "demo"
            /\ nButtons' = b
            /\ UNCHANGED locals
            /\ Log("goto", ToString(b))
            /\ Continue(Following)
       \/ /\ UNCHANGED << page, nButtons >>
          /\ Raise("goto")

\* await page.title(), locator.inner_text(), locator.count(), page.content():
\* the value is only printed.
inspect ==
    /\ At("inspect")
    /\ UNCHANGED << script, cur, other, disk, browser, env, reads, waits, shots, result, outcome >>
    /\ \/ UNCHANGED locals /\ Log("inspect", "ok") /\ Continue(Following)
       \/ Raise("inspect")

\* Matches with the presence of the button never looked at.
MatchesAny(ins, some) == TRUE

\* Whether the locator of the branch matches: the nth Start Demo button, or
\* an element the page may or may not hold.
Matches(ins, some) ==
    IF ins.arg = "Start Demo" THEN page = "demo" /\ nButtons > ins.n ELSE some

\* if await locator.count() > 0: ... else: ...
count ==
    /\ At("ifcount")
    /\ UNCHANGED << script, cur, other, disk, browser, env, reads, waits, shots, result, outcome >>
    /\ \/ \E some \in BOOLEAN :
            /\ UNCHANGED locals
            /\ Log("count", ToString(Matches(Cur, some)))
            /\ Continue(IF Matches(Cur, some) THEN pc + 1 ELSE Cur.to)
       \/ Raise("count")

\* await locator.first.click() / .nth(1).click(): the click is dispatched on
\* the button and starts the demo; with no such button the call times out.
click ==
    /\ At("click")
    /\ UNCHANGED << script, cur, other, disk, browser, page, nButtons, reads, waits, shots, result, outcome >>
    /\ IF Matches(Cur, FALSE)
         THEN /\ clicks' = clicks + 1
              /\ elapsed' = 0
              /\ UNCHANGED locals
              /\ Log("click", "ok")
              /\ Continue(Following)
         ELSE /\ UNCHANGED << clicks, elapsed >>
              /\ Raise("click")

\* wait_for_url with the timeout swallowed: the script goes on to its phase
\* waits and reads on whatever page it is on.
wait_for_url_swallowed ==
    /\ At("waiturl")
    /\ UNCHANGED << script, cur, other, disk, browser, clicks, locals, reads, shots, result, outcome >>
    /\ pc' = pc + 1
    /\ ctl' = "try"
    /\ \E d \in 0..MaxTransDelay :
         /\ d < Cur.n
         /\ Log("wait_for_url", ToString(d))
         /\ UNCHANGED << page, nButtons >>
         /\ elapsed' = elapsed + d
         /\ waits' = Append(waits, << "url", d >>)
         /\ exc' \in {exc, "wait_for_url"}

\* await page.wait_for_url("**/shipping", timeout=10000): returns once the
\* URL matches (the demo has left the demo page and its buttons), raises
\* when it has not matched within the timeout.
wait_for_url ==
    /\ At("waiturl")
    /\ UNCHANGED << script, cur, other, disk, browser, clicks, reads, shots, result, outcome >>
    /\ \/ \E d \in 0..MaxTransDelay :
            /\ d < Cur.n
            /\ clicks > 0
            /\ Log("wait_for_url", ToString(d))
            /\ UNCHANGED locals
            /\ page' = "shipping"
            /\ nButtons' = 0
            /\ elapsed' = elapsed + d
            /\ waits' = Append(waits, << "url", d >>)
            /\ Continue(Following)
       \/ /\ UNCHANGED << page, nButtons >>
          /\ elapsed' = elapsed + Cur.n
          /\ waits' = Append(waits, << "url", Cur.n >>)
          /\ Raise("wait_for_url")

\* await page.wait_for_timeout(ms)
wait_for_timeout ==
    /\ At("wait")
    /\ UNCHANGED << script, cur, other, disk, browser, page, nButtons, clicks, locals, reads, shots, result, outcome >>
    /\ Log("wait_for_timeout", "ok")
    /\ elapsed' = elapsed + Cur.n
    /\ waits' = Append(waits, << "timeout", Cur.n >>)
    /\ Continue(Following)

\* One input_value() call as the log keeps it.
ReadRec(f) == [field |-> f, at |-> elapsed, run |-> clicks]

\* input_value with a retry: a field found empty is read again.
input_value_retry ==
    /\ At("read")
    /\ UNCHANGED << script, cur, other, disk, browser, env, waits, shots, result, outcome >>
    /\ reads' = Append(reads, ReadRec(Cur.arg))
    /\ \E v \in {"", "v"} :
         /\ Log("input_value", IF v = "" THEN "empty" ELSE v)
         /\ IF Cur.to = 0
              THEN obs' = [obs EXCEPT ![Cur.arg] = v] /\ extra' = extra
              ELSE extra' = v /\ obs' = obs
         /\ Continue(IF v = "" THEN pc ELSE pc + 1)

\* input_value with the value also put in the place of the first declared
\* field: an earlier observation is altered.
input_value_clobber ==
    /\ At("read")
    /\ UNCHANGED << script, cur, other, disk, browser, env, waits, shots, result, outcome >>
    /\ reads' = Append(reads, ReadRec(Cur.arg))
    /\ \E v \in {"", "v"} :
         /\ IF Cur.to = 0
              THEN obs' = [obs EXCEPT ![Cur.arg] = v, ![Declared(script)[1]] = v]
                   /\ extra' = extra
              ELSE extra' = v /\ obs' = obs
         /\ Log("input_value", IF v = "" THEN "empty" ELSE v)
         /\ Continue(pc + 1)

\* value = await page.locator(selector).input_value(): the element's value,
\* or a raise when the element is missing.  A scored value is bound to its
\* local (or dict key); inside its own try/except a raise binds nothing and
\* the loop goes on.
input_value ==
    /\ At("read")
    /\ UNCHANGED << script, cur, other, disk, browser, env, waits, shots, result, outcome >>
    /\ reads' = Append(reads, ReadRec(Cur.arg))
    /\ \/ \E v \in {"", "v"} :
            /\ IF Cur.to = 0
                 THEN obs' = [obs EXCEPT ![Cur.arg] = v] /\ extra' = extra
                 ELSE extra' = v /\ obs' = obs
            /\ Log("input_value", IF v = "" THEN "empty" ELSE v)
            /\ Continue(pc + 1)
       \/ IF Cur.n = 1
            THEN UNCHANGED locals /\ Log("input_value", "raise") /\ Continue(pc + 1)
            ELSE Raise("input_value")

\* await page.screenshot(path=...) in the try body
screenshot ==
    /\ At("shot")
    /\ UNCHANGED << script, cur, other, browser, env, reads, waits, result, outcome >>
    /\ \/ /\ shots' = Append(shots, Cur.arg)
          /\ disk' = disk \cup {<< Cur.arg, cur >>}
          /\ UNCHANGED locals
          /\ Log("screenshot", "ok")
          /\ Continue(Following)
       \/ /\ UNCHANGED << shots, disk >>
          /\ Raise("screenshot")

\* ----------------------------------------------------------------- scoring
\* Python truthiness of a string value: `if f`, `if v`.
Truthy(v) == v # ""

\* FilledCount with `is not None` in place of truthiness: an empty string
\* counts as filled.
FilledCountNotNone(o) == Cardinality({f \in DOMAIN o : o[f] # "unset"})

\* filled_fields = [f for f in all_fields if f]; the locals of all_fields
\* are all bound when the list is built.  In the final script
\* sum(1 for v in filled_fields.values() if v) runs over the keys the read
\* loop stored, and a read that raised stored none.
FilledCount(o) == Cardinality({f \in DOMAIN o : o[f] # "unset" /\ Truthy(o[f])})

\* TotalCount taken over the values stored (len(filled_fields)) instead of
\* the fields declared.
TotalCountStored(s) == Cardinality({f \in DOMAIN obs : obs[f] # "unset"})

\* len(all_fields), len(fields_to_check)
TotalCount(s) == Len(Declared(s))

\* success_rate = (filled / total) * 100, kept as the exact fraction
\* <<100 * filled, total>>.  For the totals of the scripts (17 and 8) the
\* double the code computes lies on the same side of 70 and of 80 as the
\* exact quotient for every filled count.
SuccessRate(filled, total) == << 100 * filled, total >>

\* AtLeast with the threshold taken as a fraction (0.7) while the rate is in
\* percent.
AtLeastFraction(rate, threshold) == 100 * rate[1] >= threshold * rate[2]

\* AtLeast with the comparison turned round: the rate passes when it is at
\* most the threshold.
AtMost(rate, threshold) == rate[1] <= threshold * rate[2]

\* success_rate >= threshold
AtLeast(rate, threshold) == rate[1] >= threshold * rate[2]

\* score with a verdict that does not follow from the observations alone.
score_flaky ==
    /\ At("score")
    /\ UNCHANGED << script, cur, other, disk, browser, env, locals, reads, waits, shots, exitStatus >>
    /\ Log("score", "")
    /\ successRate' = SuccessRate(FilledCount(obs), TotalCount(script))
    /\ \E ok \in BOOLEAN :
         /\ verdict' = IF ok THEN "pass" ELSE "fail"
         /\ returned' = IF Cur.arg = "return"
                          THEN (IF ok THEN "True" ELSE "False")
                          ELSE returned
    /\ Continue(pc + 1)

\* The "Calculate success metrics" / "Summary" block.  The comprehensive
\* script returns the comparison; the final script only prints it.
score ==
    /\ At("score")
    /\ UNCHANGED << script, cur, other, disk, browser, env, locals, reads, waits, shots, exitStatus >>
    /\ Log("score", "")
    /\ LET rate == SuccessRate(FilledCount(obs), TotalCount(script))
           ok == AtLeast(rate, Cur.n)
       IN  /\ successRate' = rate
           /\ verdict' = IF ok THEN "pass" ELSE "fail"
           /\ returned' = IF Cur.arg = "return"
                            THEN (IF ok THEN "True" ELSE "False")
                            ELSE returned
    /\ Continue(pc + 1)

\* if origin_name and origin_company and origin_phone and origin_email
AllOf(o) == \A f \in DOMAIN o : o[f] # "unset" /\ Truthy(o[f])

allof ==
    /\ At("allof")
    /\ UNCHANGED << script, cur, other, disk, browser, env, locals, reads, waits, shots, successRate, outcome >>
    /\ Log("allof", "")
    /\ verdict' = IF AllOf(obs) THEN "pass" ELSE "fail"
    /\ Continue(pc + 1)

\* ------------------------------------------------- except / finally / exit
\* What the except block returns once its screenshot is taken.
ExceptReturn(s, r) == IF s = "comprehensive" THEN "False" ELSE r

\* except with the failure also entered as a failing verdict.
except_fail ==
    /\ ctl = "except"
    /\ UNCHANGED << script, cur, other, pc, browser, env, locals, reads, waits, successRate, exc, exitStatus >>
    /\ ctl' = "finally"
    /\ verdict' = "fail"
    /\ shots' = Append(shots, ErrorShot(script))
    /\ disk' = disk \cup {<< ErrorShot(script), cur >>}
    /\ returned' = ExceptReturn(script, returned)
    /\ Log("error_screenshot", "ok")

\* except with the browser closed before the error screenshot is asked for:
\* the capture is skipped.
except_uncaptured ==
    /\ ctl = "except"
    /\ UNCHANGED << script, cur, other, disk, pc, browser, env, locals, reads, waits, shots, result, exc, exitStatus >>
    /\ ctl' = "finally"
    /\ returned' = ExceptReturn(script, returned)
    /\ Log("except", "")

\* except Exception as e: print, take the error screenshot, and (in the
\* comprehensive script) return False.  A raise inside the block leaves the
\* function through finally.
except ==
    /\ ctl = "except"
    /\ UNCHANGED << script, cur, other, pc, browser, env, locals, reads, waits, result, exc, exitStatus >>
    /\ ctl' = "finally"
    /\ \/ /\ shots' = Append(shots, ErrorShot(script))
          /\ disk' = disk \cup {<< ErrorShot(script), cur >>}
          /\ returned' = ExceptReturn(script, returned)
          /\ Log("error_screenshot", "ok")
       \/ /\ UNCHANGED << shots, disk >>
          /\ returned' = "raised"
          /\ Log("error_screenshot", "raise")

\* close as it would be without the finally clause: an exception raised inside
\* the except block leaves the function with the browser open.
close_unless_raised ==
    /\ ctl = "finally"
    /\ UNCHANGED << script, cur, other, disk, pc, env, reads, waits, shots, result, exc, exitStatus >>
    /\ IF returned = "raised"
         THEN browser' = browser /\ Log("leave", "")
         ELSE browser' = "closed" /\ Log("close", "ok")
    /\ ctl' = "exit"
    /\ returned' = IF returned = "unset" THEN "None" ELSE returned
    /\ obs' = Unbound(script)
    /\ extra' = "unset"

\* finally: await browser.close(), after which the function is left: with
\* the value of its return statement, with None when it has none, or with
\* the exception the except block raised.  Its locals end with it.
close ==
    /\ ctl = "finally"
    /\ UNCHANGED << script, cur, other, disk, pc, env, reads, waits, shots, result, exc, exitStatus >>
    /\ Log("close", "ok")
    /\ browser' = "closed"
    /\ ctl' = "exit"
    /\ returned' = IF returned = "unset" THEN "None" ELSE returned
    /\ obs' = Unbound(script)
    /\ extra' = "unset"

\* ExitStatus taken as 1 only for a returned False: an exception that left
\* the function would end the process with status 0.
ExitStatusUnlessFalse(s, r) == IF r = "False" THEN 1 ELSE 0

\* exit(0 if success else 1) in the comprehensive script; the others end
\* with asyncio.run(...), and an exception that left the function ends the
\* process with status 1.
ExitStatus(s, r) ==
    IF s = "comprehensive" THEN (IF r = "True" THEN 0 ELSE 1)
    ELSE IF r = "raised" THEN 1 ELSE 0

exit ==
    /\ ctl = "exit"
    /\ UNCHANGED << script, cur, other, disk, pc, browser, env, locals, reads, waits, shots, result, exc, returned >>
    /\ Log("exit", "")
    /\ exitStatus' = ExitStatus(script, returned)
    /\ ctl' = "done"

Next ==
    \/ goto
    \/ inspect
    \/ count
    \/ click
    \/ wait_for_url
    \/ wait_for_timeout
    \/ input_value
    \/ screenshot
    \/ score
    \/ allof
    \/ except
    \/ close
    \/ exit

Spec == Init /\ [][Next]_vars

\* ------------------------------------------------------- two runs at once
\* The state a run starts in: what Init gives the variables of `run`.
RunInit(s) ==
    << s, 1, "try", "open", "blank", 0, 0, 0, Unbound(s), "unset",
       << >>, << >>, << >>, << >>, "none", "none", "unset", -1,
       << >>, << "start", "" >> >>

\* The scripts started side by side: the two that name their error
\* screenshot alike.
ConcScripts == {"advanced", "basic"}

\* Two scripts are started from the same working directory, each as its own
\* process with its own browser.
ConcInit ==
    /\ Launch
    /\ script \in ConcScripts
    /\ cur = 1
    /\ \E s \in ConcScripts : other = RunInit(s)
    /\ disk = {}

\* The scheduler takes the executing run off and puts the other one on.  Each
\* process keeps all of its state; only the working directory is common.
switch ==
    /\ other # << >>
    /\ other' = run
    /\ cur' = 3 - cur
    /\ UNCHANGED disk
    /\ script' = other[1]
    /\ pc' = other[2]
    /\ ctl' = other[3]
    /\ browser' = other[4]
    /\ page' = other[5]
    /\ nButtons' = other[6]
    /\ clicks' = other[7]
    /\ elapsed' = other[8]
    /\ obs' = other[9]
    /\ extra' = other[10]
    /\ reads' = other[11]
    /\ waits' = other[12]
    /\ shots' = other[13]
    /\ successRate' = other[14]
    /\ verdict' = other[15]
    /\ exc' = other[16]
    /\ returned' = other[17]
    /\ exitStatus' = other[18]
    /\ trace' = other[19]
    /\ last' = other[20]

ConcNext ==
    \/ goto
    \/ inspect
    \/ count
    \/ click
    \/ wait_for_url
    \/ wait_for_timeout
    \/ input_value
    \/ screenshot
    \/ allof
    \/ except
    \/ close
    \/ exit
    \/ switch

ConcSpec == ConcInit /\ [][ConcNext]_vars

\* --------------------------------------------- the same script, run twice
\* The scripts run in pairs.  The comprehensive script is left to the single
\* run: it scores with the statement the final script scores with, over 17
\* fields in place of 8.
DetScripts == {"final", "advanced", "basic", "debug"}

\* Two runs of one script are started.
DetInit ==
    /\ Launch
    /\ script \in DetScripts
    /\ cur = 1
    /\ other = RunInit(script)
    /\ disk = {}

\* The number of steps the run that is not executing has taken, and the
\* result the adapter gave its latest one.
OtherSteps == Len(other[19])
OtherLast == other[20]

\* The two runs are taken through their steps side by side: one takes a step
\* with whatever its adapter returns, then the other takes its step, and its
\* adapter returns the same.
InStep ==
    \/ Len(trace) = OtherSteps + 1
    \/ Len(trace) = OtherSteps /\ last = OtherLast

paired ==
    /\ Next
    /\ InStep'

handoff ==
    /\ Len(trace) = OtherSteps + 1
    /\ switch

DetNext ==
    \/ paired
    \/ handoff

DetSpec == DetInit /\ [][DetNext]_vars

\* ------------------------------------------------------------------ claims
DeclaredSet == DOMAIN Unbound(script)

\* The declared fields whose recorded value is non-empty.
Populated == {f \in DeclaredSet : obs[f] = "v"}

\* The score has been computed and the function not yet left (its locals
\* are still there to compare with).
Scored == successRate # << >> /\ ctl = "finally"

\* C1: in every run that reaches scoring, the reported success rate equals
\* the number of declared fields whose recorded value is non-empty divided by
\* the number of declared fields; a declared field whose read failed counts
\* in the denominator and as unpopulated, and a value read outside the
\* declared set counts nowhere.
C1_SuccessRate ==
    Scored =>
        /\ successRate[2] > 0
        /\ successRate[1] * Cardinality(DeclaredSet)
             = 100 * Cardinality(Populated) * successRate[2]

\* A scored run of the final script in which one declared read failed, another
\* field is populated, and the healthcare value was read as non-empty.
C1_Witness ==
    /\ script = "final"
    /\ Scored
    /\ obs["origin-zip"] = "unset"
    /\ obs["origin-contact-name"] = "v"
    /\ extra = "v"

\* C2: every field is read only after the window of its phase has fully
\* elapsed since the demo was triggered: contact fields not before 5 s,
\* origin-address fields not before 10 s, destination fields not before 15 s,
\* package fields not before 20 s.
C2_ReadAfterWindow ==
    \A i \in 1..Len(reads) : reads[i].at >= PhaseWindow * PhaseOf(reads[i].field)

\* The failed read of a scored field sent control to the except block (pc
\* stays at the statement that raised).
ScoredReadRaised == exc = "input_value" /\ Cur.op = "read" /\ Cur.to = 0

AllDeclaredRead == \A f \in DeclaredSet : \E i \in 1..Len(reads) : reads[i].field = f

\* C3: a failure to read one field never aborts the run: the remaining fields
\* are still read and a verdict is still produced.
C3_ReadFailureNotFatal ==
    (ctl = "done" /\ ScoredReadRaised) => (AllDeclaredRead /\ verdict # "none")

\* The demo page is loaded and shows no Start Demo button.
TriggerAbsent == page = "demo" /\ nButtons = 0

C5_TransitionTimeout ==
    /\ [](exc = "wait_for_url" => (verdict = "none" /\ successRate = << >>))
    /\ [][exc = "wait_for_url" => (reads' = reads /\ waits' = waits)]_vars

\* The comprehensive script has ended after the URL wait ran its 10 s out.
C5_Witness ==
    /\ script = "comprehensive"
    /\ exc = "wait_for_url"
    /\ ctl = "done"
    /\ waits = << << "url", TransitionTimeout >> >>

\* C6: when the navigation to the entry page fails, the trigger is never
\* clicked, no field is read and no verdict is produced.
C6_NavigationError ==
    /\ []((exc = "goto" /\ pc = 1) => (clicks = 0 /\ reads = << >> /\ waits = << >>))
    /\ [](exc = "goto" => (verdict = "none" /\ successRate = << >>))
    /\ [][exc = "goto" => (clicks' = clicks /\ reads' = reads /\ waits' = waits)]_vars

\* The comprehensive script has ended after its entry navigation failed.
C6_Witness ==
    /\ script = "comprehensive"
    /\ exc = "goto"
    /\ pc = 1
    /\ ctl = "done"

\* What the comprehensive script hands its caller after a completed run
\* below the threshold: return False, exit status 1.
FailingOutcome == << "False", 1 >>

\* C7: a fatal condition (navigation failure, trigger not found, transition
\* timeout) is never handed to the caller as the outcome of a failing verdict.
C7_FatalDistinctFromFail ==
    (script = "comprehensive" /\ ctl = "done"
       /\ exc \in {"goto", "click", "wait_for_url"})
        => << returned, exitStatus >> # FailingOutcome

\* The threshold a script compares its success rate with.
Threshold(s) == IF s = "comprehensive" THEN ComprehensiveThreshold ELSE FinalThreshold

\* C8: a completed run passes exactly when its success rate is at least the
\* threshold; the comprehensive script returns True exactly then; and the
\* advanced script, which asks for every field, passes exactly when all its
\* declared fields are populated.
C8_PassIffAtLeast ==
    /\ successRate # << >> =>
         /\ verdict \in {"pass", "fail"}
         /\ verdict = "pass" <=> successRate[1] >= Threshold(script) * successRate[2]
    /\ (script = "comprehensive" /\ verdict # "none" /\ ctl \in {"finally", "exit", "done"}) =>
         (returned = "True" <=> verdict = "pass")
    /\ (script = "advanced" /\ verdict # "none" /\ ctl = "finally") =>
         (verdict = "pass" <=> Populated = DeclaredSet)

\* All 17 fields populated: the comprehensive script passes at 70.
C8_Witness ==
    /\ script = "comprehensive"
    /\ Scored
    /\ Cardinality(Populated) = 17
    /\ verdict = "pass"

\* C9: with 12 of the 17 declared fields populated the comprehensive script
\* passes at its threshold of 70, and the same rate is below the threshold
\* of 80.
C9_TwelveOfSeventeen ==
    (script = "comprehensive" /\ Scored /\ Cardinality(Populated) = 12) =>
        /\ Cardinality(DeclaredSet) = 17
        /\ verdict = "pass"
        /\ returned = "True"
        /\ AtLeast(successRate, ComprehensiveThreshold)
        /\ ~AtLeast(successRate, FinalThreshold)

\* Exactly the five package fields are empty.
C9_Witness ==
    /\ script = "comprehensive"
    /\ Scored
    /\ Cardinality(Populated) = 12
    /\ \A f \in PackageSet : obs[f] = ""

\* Field f was read in the run the score is about (the first scenario
\* triggered).
ReadInFirstRun(f) == \E i \in 1..Len(reads) : reads[i].field = f /\ reads[i].run = 1

\* No field is read twice within one run.
NoSecondRead ==
    Cardinality({<< reads[i].field, reads[i].run >> : i \in 1..Len(reads)}) = Len(reads)

\* The seconds the URL wait of the first scenario took.
FirstUrlWait == waits[CHOOSE i \in 1..Len(waits) :
                        /\ waits[i][1] = "url"
                        /\ \A j \in 1..(i - 1) : waits[j][1] # "url"][2]

IsStartStep(c) == c \in {"goto", "click", "wait_for_url"}
StartSteps == SelectSeq(trace, IsStartStep)

\* Between two attempts at the same step lies the step that opens another
\* scenario (a navigation between two clicks or two URL waits, a click
\* between two navigations).
OncePerScenario(steps) ==
    \A i, j \in 1..Len(steps) :
        (i < j /\ steps[i] = steps[j]) =>
            \E k \in (i + 1)..(j - 1) :
                steps[k] = (IF steps[i] = "goto" THEN "click" ELSE "goto")

\* C11: no step is retried: within one scenario the entry navigation, the
\* trigger click and the transition wait are each attempted at most once, and
\* once one of them has failed the run goes down its fatal path (error
\* screenshot, close, exit) without attempting any step again.
C11_NoRetry ==
    /\ [](OncePerScenario(StartSteps))
    /\ [](exc \in {"goto", "click", "wait_for_url"} =>
            /\ ctl # "try"
            /\ trace[Len(trace)] \in {exc, "error_screenshot", "close", "exit"})
    /\ [][exc # "none" =>
            /\ exc' = exc
            /\ trace' # trace => trace'[Len(trace')] \in {"error_screenshot", "close", "exit"}]_vars

\* The final script ended when the URL wait of its second scenario timed out:
\* each step was attempted once for each scenario.
C11_Witness ==
    /\ script = "final"
    /\ ctl = "done"
    /\ exc = "wait_for_url"
    /\ StartSteps = << "goto", "click", "wait_for_url", "goto", "click", "wait_for_url" >>

\* How far the run has come: the statement of the try body it is at, then
\* the except block, finally, the exit and the end.
Rank ==
    LET n == Len(Prog(script))
    IN  CASE ctl = "try" -> pc
          [] ctl = "except" -> n + 1
          [] ctl = "finally" -> n + 2
          [] ctl = "exit" -> n + 3
          [] ctl = "done" -> n + 4

HasVerdict == verdict # "none"
HasFatalError == exc # "none"

\* The longest single wait of any script: wait_for_timeout(15000).
LongestWait == 15

Judged == HasVerdict /\ ctl = "finally"

IsFirstRun(r) == r.run = 1
\* The fields read in the scenario the verdict is about, in the order read.
FieldsRead ==
    LET rs == SelectSeq(reads, IsFirstRun)
    IN  [i \in 1..Len(rs) |-> rs[i].field]

IndexOf(c) ==
    IF \E i \in 1..Len(trace) : trace[i] = c
      THEN CHOOSE i \in 1..Len(trace) : trace[i] = c /\ \A j \in 1..(i - 1) : trace[j] # c
      ELSE 0

Writers(p) == {w[2] : w \in {x \in disk : x[1] = p}}

\* C15: two runs executing concurrently share no mutable state: no file one
\* run produced is written by the other.
C15_NoSharedArtifact == \A w \in disk : Writers(w[1]) = {w[2]}

\* C16: a browser session is owned by one scenario run for its whole
\* lifetime: the one session a script launches has at most one scenario
\* triggered in it, and the scenario is triggered on a session in which none
\* has run.
C16_SessionPerScenario ==
    /\ clicks <= 1
    /\ Len(SelectSeq(trace, LAMBDA c : c = "goto")) <= 1

\* Both runs have taken the same number of steps, with the same adapter
\* results.
Abreast == other # << >> /\ Len(trace) = OtherSteps

WaitsBegun == Cardinality({j \in 1..(Len(trace) - 1) : trace[j] = "wait_for_timeout"})
ReadsMade == Cardinality({j \in 1..(Len(trace) - 1) : trace[j] = "input_value"})

\* The declared fields of the phases before phase m.
FieldsBefore(m) == {f \in DeclaredSet : PhaseOf(f) < m}

\* C18: the comprehensive script processes its phases one after another in
\* the declared order: when the wait of a phase begins, every field of the
\* phases before it has been read and no other; every read is of a field of
\* the phase whose wait was the latest to begin; the reads are in
\* non-decreasing phase order; and one statement at a time is executed.
C18_PhasesInOrder ==
    /\ [](script = "comprehensive" =>
            /\ (trace # << >> /\ trace[Len(trace)] = "wait_for_timeout") =>
                 ReadsMade = Cardinality(FieldsBefore(WaitsBegun + 1))
            /\ (trace # << >> /\ trace[Len(trace)] = "input_value") =>
                 /\ Len(reads) = ReadsMade + 1
                 /\ PhaseOf(reads[Len(reads)].field) = WaitsBegun
            /\ \A i \in 1..(Len(reads) - 1) :
                 PhaseOf(reads[i].field) <= PhaseOf(reads[i + 1].field))
    /\ [][Len(trace') = Len(trace) + 1 /\ (ctl = "try" => pc' >= pc)]_vars

\* The comprehensive script has read the last field of its fourth phase.
C18_Witness ==
    /\ script = "comprehensive"
    /\ ctl = "try"
    /\ Len(reads) = 17
    /\ trace[Len(trace)] = "input_value"
    /\ WaitsBegun = 4

\* How many times browser.close() has been called.
Closes == Cardinality({i \in 1..Len(trace) : trace[i] = "close"})

\* C19: the browser a script launched is closed exactly once on every path
\* (pass, fail, trigger not found, and a raise in the navigation, the click,
\* the transition wait, a read or the error screenshot): it is open until
\* finally is reached, finally closes it, and a run that has left finally has
\* closed it once; after the close no call is made on the session.
C19_ClosedOnce ==
    /\ [](Closes = (IF browser = "closed" THEN 1 ELSE 0))
    /\ [](browser = "closed" <=> ctl \in {"exit", "done"})
    /\ [](ctl = "finally" => ENABLED close)
    /\ [][browser = "closed" =>
            /\ browser' = "closed"
            /\ << page, nButtons, clicks, elapsed, reads, waits, shots, disk >>'
                 = << page, nButtons, clicks, elapsed, reads, waits, shots, disk >>
            /\ trace' = Append(trace, "exit")]_vars

\* The error screenshot itself raised after a failed read, and the browser
\* was closed all the same.
C19_Witness ==
    /\ ctl = "done"
    /\ exc = "input_value"
    /\ returned = "raised"
    /\ browser = "closed"
    /\ trace[Len(trace) - 1] = "close"

\* The comprehensive script's process has exited.
Exited == script = "comprehensive" /\ ctl = "done"

\* C20: the exit status of the comprehensive script is 0 if and only if no
\* step raised and at least 70% of its 17 declared fields were non-empty,
\* and 1 otherwise.
C20_ExitStatus ==
    /\ Exited =>
         /\ exitStatus \in {0, 1}
         /\ exitStatus = 0 <=>
              /\ exc = "none"
              /\ returned # "raised"
              /\ successRate # << >>
              /\ successRate[2] = 17
              /\ successRate[1] >= ComprehensiveThreshold * successRate[2]
    /\ (script = "comprehensive" /\ Scored) =>
         /\ successRate = << 100 * Cardinality(Populated), 17 >>
         /\ returned = "True" <=> 100 * Cardinality(Populated) >= ComprehensiveThreshold * 17
    /\ (script = "comprehensive" /\ ctl \in {"exit", "done"} /\ exc = "none") =>
         successRate # << >> /\ returned \in {"True", "False"}

\* The comprehensive script has exited with status 0 on 12 of 17 fields.
C20_Witness ==
    /\ Exited
    /\ exitStatus = 0
    /\ successRate = << 1200, 17 >>

\* The observations with field f found non-empty.
Filled(o, f) == [o EXCEPT ![f] = "v"]

\* The rate the scoring block computes over observations o.
RateOf(o) == SuccessRate(FilledCount(o), TotalCount(script))

\* Rate r is not above rate s (both are fractions <<numerator, denominator>>).
NotAbove(r, s) == r[1] * s[2] <= s[1] * r[2]

\* C21: the verdict is monotone: over the same declared fields, had one field
\* that was found empty (or not found) been found non-empty, the success rate
\* would not be lower and a pass would not be a fail; and under any lower
\* threshold a pass stays a pass.
C21_Monotone ==
    Scored =>
        /\ \A f \in DeclaredSet \ Populated :
             /\ NotAbove(successRate, RateOf(Filled(obs, f)))
             /\ FilledCount(Filled(obs, f)) = FilledCount(obs) + 1
             /\ verdict = "pass" => AtLeast(RateOf(Filled(obs, f)), Threshold(script))
        /\ \A t \in 0..Threshold(script) :
             verdict = "pass" => AtLeast(successRate, t)

\* The final script failed on 6 of its 8 fields, one found empty and one not
\* found: with either of them non-empty it would have passed.
C21_Witness ==
    /\ script = "final"
    /\ Scored
    /\ verdict = "fail"
    /\ Cardinality(Populated) = 6
    /\ obs["origin-city"] = ""
    /\ obs["origin-zip"] = "unset"
    /\ AtLeast(RateOf(Filled(obs, "origin-city")), FinalThreshold)

====
